---- MODULE Spec2Model ----
(***************************************************************************)
(* GLIK backend (src/main.py): the heuristic risk score of /predict, the   *)
(* random-walk glucose trend and the mock product scan of /scan.           *)
(*                                                                         *)
(* A Python float is modelled as a record: a finite value counted in       *)
(* halves (h = 2 * value, so 69.5 is h = 139), an infinity (h = 1 or -1)   *)
(* or NaN.  Comparisons follow IEEE 754 as Python's <, > and == do: every  *)
(* comparison with NaN is false.                                           *)
(***************************************************************************)
EXTENDS Integers, Sequences, FiniteSets, TLC

VARIABLES
    pc,       \* where the running handler (or the caller of calculate_risk) is
    data,     \* the PatientData passed to calculate_risk
    risk,     \* what calculate_risk returned: score, label, explanation
    current,  \* generate_trend's local `current`
    series,   \* generate_trend's local `series`
    rng,      \* position of the process-global generator of module random
    resp      \* the response the handler returned, until it is sent

vars == <<pc, data, risk, current, series, rng, resp>>

----------------------------------------------------------------------------
(* Floats *)

Fin(h) == [k |-> "fin", h |-> h]
F(n) == Fin(2 * n)
NaN == [k |-> "nan", h |-> 0]
PosInf == [k |-> "inf", h |-> 1]
NegInf == [k |-> "inf", h |-> -1]

IsFinite(x) == x.k = "fin"

\* x > c, x < c, x == c for a float x and an integer literal c
FGt(x, c) == IF x.k = "fin" THEN x.h > 2 * c ELSE x.k = "inf" /\ x.h > 0
FLt(x, c) == IF x.k = "fin" THEN x.h < 2 * c ELSE x.k = "inf" /\ x.h < 0
FEq(x, c) == x.k = "fin" /\ x.h = 2 * c
FGe(x, c) == IF x.k = "fin" THEN x.h >= 2 * c ELSE x.k = "inf" /\ x.h > 0
FLe(x, c) == IF x.k = "fin" THEN x.h <= 2 * c ELSE x.k = "inf" /\ x.h < 0

\* x + n for a float x and an integer n
FAdd(x, n) == IF x.k = "fin" THEN Fin(x.h + 2 * n) ELSE x

\* min(a, x) and max(a, x) as the builtins compute them for two arguments:
\* the first argument is kept unless the second compares strictly beyond it.
PyMin(a, x) == IF FLt(x, a) THEN x ELSE F(a)
PyMax(a, x) == IF FGt(x, a) THEN x ELSE F(a)

\* int(x) of a finite float: truncation toward zero
\* (variant: math.floor in its place)
IntOfMutFloor(x) == x.h \div 2
IntOf(x) == IF x.h >= 0 THEN x.h \div 2 ELSE -((-x.h) \div 2)

----------------------------------------------------------------------------
(* calculate_risk *)

PatientData(g, i, c, a, s, m) ==
    [glucose |-> g, insulin_units |-> i, carbs_grams |-> c,
     activity_level |-> a, stress_level |-> s, mood |-> m]

DefaultMood == "neutral face"
\* PatientData with the defaults of the model class for all but glucose
WithDefaults(g) == PatientData(g, F(0), F(0), F(5), F(5), DefaultMood)

Min2(a, b) == IF a < b THEN a ELSE b
Max2(a, b) == IF a > b THEN a ELSE b

\* Base risk from glucose: the if / elif / else
\* (variant: the two additions swapped)
GlucoseScoreMutSwap(d) ==
    IF FGt(d.glucose, 180) THEN 50
    ELSE IF FLt(d.glucose, 70) THEN 60
    ELSE 10
GlucoseScore(d) ==
    IF FGt(d.glucose, 180) THEN 60
    ELSE IF FLt(d.glucose, 70) THEN 50
    ELSE 10

GlucoseReasons(d) ==
    IF FGt(d.glucose, 180) THEN <<"Current glucose is elevated.">>
    ELSE IF FLt(d.glucose, 70) THEN <<"Risk of hypoglycemia.">>
    ELSE <<>>

\* the four conditions of the impact contributors
\* (variant of the first: >= for >)
CarbsHitMutGe(d) == FGe(d.carbs_grams, 60)
CarbsHit(d) == FGt(d.carbs_grams, 60)
StressHit(d) == FGt(d.stress_level, 7)
ActivityHit(d) == FLt(d.activity_level, 3)
InsulinHit(d) == FEq(d.insulin_units, 0) /\ FGt(d.glucose, 150)

\* score after the five additions, before the clamp
RawScore(d) ==
    LET s1 == GlucoseScore(d)
        s2 == IF CarbsHit(d) THEN s1 + 20 ELSE s1
        s3 == IF StressHit(d) THEN s2 + 15 ELSE s2
        s4 == IF ActivityHit(d) THEN s3 + 10 ELSE s3
        s5 == IF InsulinHit(d) THEN s4 + 10 ELSE s4
    IN  s5

\* the reasons list after the five appends
\* (variant: the stress rule placed before the carbs rule)
ReasonsMutOrder(d) ==
    LET r1 == GlucoseReasons(d)
        r2 == IF StressHit(d)
              THEN Append(r1, "High stress levels can spike glucose.") ELSE r1
        r3 == IF CarbsHit(d) THEN Append(r2, "High carb intake detected.") ELSE r2
        r4 == IF ActivityHit(d)
              THEN Append(r3, "Low activity increases persistence of high glucose.")
              ELSE r3
        r5 == IF InsulinHit(d) THEN Append(r4, "Missed insulin correction?") ELSE r4
    IN  r5
Reasons(d) ==
    LET r1 == GlucoseReasons(d)
        r2 == IF CarbsHit(d) THEN Append(r1, "High carb intake detected.") ELSE r1
        r3 == IF StressHit(d)
              THEN Append(r2, "High stress levels can spike glucose.") ELSE r2
        r4 == IF ActivityHit(d)
              THEN Append(r3, "Low activity increases persistence of high glucose.")
              ELSE r3
        r5 == IF InsulinHit(d) THEN Append(r4, "Missed insulin correction?") ELSE r4
    IN  r5

\* score = min(max(score, 0), 100)
\* (variant: the clamp left out)
ClampScoreMutNone(score) == score
ClampScore(score) == Min2(Max2(score, 0), 100)

LabelOf(score) ==
    IF score < 30 THEN "Low"
    ELSE IF score < 70 THEN "Medium"
    ELSE "High"

\* " ".join(reasons)
RECURSIVE JoinSpace(_)
JoinSpace(rs) ==
    IF Len(rs) = 0 THEN ""
    ELSE IF Len(rs) = 1 THEN rs[1]
    ELSE rs[1] \o " " \o JoinSpace(Tail(rs))

Explanation(reasons) ==
    IF reasons # <<>> THEN JoinSpace(reasons) ELSE "Levels look stable."

\* (variants: a mood that adds to the score; a random jitter on the score)
calculate_riskMutMood(d) ==
    LET score == ClampScore(RawScore(d) + (IF d.mood = DefaultMood THEN 0 ELSE 5))
    IN  [score |-> score, label |-> LabelOf(score),
         explanation |-> Explanation(Reasons(d))]
calculate_riskMutRng(d) ==
    LET score == ClampScore(RawScore(d) + rng)
    IN  [score |-> score, label |-> LabelOf(score),
         explanation |-> Explanation(Reasons(d))]
calculate_risk(d) ==
    LET score == ClampScore(RawScore(d))
    IN  [score |-> score, label |-> LabelOf(score),
         explanation |-> Explanation(Reasons(d))]

----------------------------------------------------------------------------
(* generate_trend *)

TrendLen == 14
StepMax == 15
TrendLo == 60
TrendHi == 350

\* the values of random.randint(-15, 15) the model draws: the two extremes,
\* which reach both clamps and keep the 14 draws of a walk enumerable
Steps == {-StepMax, StepMax}

\* max(60, min(350, current))
\* (variant: the clamp left out)
ClampTrendMutNone(x) == x
ClampTrend(x) == PyMax(TrendLo, PyMin(TrendHi, x))

\* a draw from the global generator moves it on
RngPeriod == 3
Drawn(r, n) == (r + n) % RngPeriod

----------------------------------------------------------------------------
(* scan_product *)

products == <<
    [name |-> "Apple", carbs |-> 25, risk |-> "Low",
     expl |-> "Natural sugars, high fiber."],
    [name |-> "Soda Can", carbs |-> 40, risk |-> "High",
     expl |-> "High glycemic index, liquid sugar."],
    [name |-> "Pizza Slice", carbs |-> 35, risk |-> "Medium",
     expl |-> "Fat/protein delays absorption, but high carb."],
    [name |-> "Salad", carbs |-> 10, risk |-> "Low",
     expl |-> "Very low impact."],
    [name |-> "Donut", carbs |-> 45, risk |-> "High",
     expl |-> "Refined carbs and fats."] >>

\* the range random.randint draws the mock score from
\* (variants: High drawn up to 100; Low drawn up to 30)
ScanScoresMutHigh(detected) ==
    IF detected.risk = "High" THEN 70..100
    ELSE IF detected.risk = "Medium" THEN 30..69
    ELSE 5..29
ScanScoresMutLow(detected) ==
    IF detected.risk = "High" THEN 70..95
    ELSE IF detected.risk = "Medium" THEN 30..69
    ELSE 5..30
ScanScores(detected) ==
    IF detected.risk = "High" THEN 70..95
    ELSE IF detected.risk = "Medium" THEN 30..69
    ELSE 5..29

----------------------------------------------------------------------------
(* Inputs *)

NoData == [kind |-> "none"]
NoRisk == [kind |-> "none"]
NoResp == [kind |-> "none"]
NoFloat == [k |-> "unset", h |-> 0]

\* glucose readings of the request bodies: fractional, negative, below and
\* beyond the trend clamp, and the non-finite floats json.loads lets through
TrendStarts ==
    { Fin(-21), Fin(119), Fin(139), F(100), F(200), Fin(701), F(400),
      NaN, PosInf, NegInf }

PredictBodies ==
    { WithDefaults(g) : g \in TrendStarts }
    \cup { PatientData(F(200), F(0), Fin(121), F(2), F(8), "happy"),
           PatientData(F(100), NaN, NaN, NaN, NaN, DefaultMood) }

\* inputs of calculate_risk: on, next to and far from every threshold
GlucoseInputs ==
    { Fin(-21), F(60), Fin(139), F(70), F(100), F(150), Fin(301), F(180),
      Fin(361), F(200), NaN, PosInf, NegInf }
InsulinInputs == { F(0), F(4), NaN }
CarbsInputs == { F(0), F(60), Fin(121), NaN }
ActivityInputs == { F(5), F(3), Fin(5), F(-1), NaN }
StressInputs == { F(5), F(7), Fin(15), F(11), NaN }
Moods == { DefaultMood, "happy" }

PatientInputs ==
    { PatientData(g, i, c, a, s, DefaultMood) :
        g \in GlucoseInputs, i \in InsulinInputs, c \in CarbsInputs,
        a \in ActivityInputs, s \in StressInputs }

----------------------------------------------------------------------------
(* The server.  Neither coroutine awaits anything, so the event loop runs  *)
(* each handler to its return before it starts the next; what a handler    *)
(* leaves behind is the position of the global generator.                  *)

Init ==
    /\ pc = "idle"
    /\ data = NoData
    /\ risk = NoRisk
    /\ current = NoFloat
    /\ series = <<>>
    /\ rng = 0
    /\ resp = NoResp

\* predict_risk up to the loop of generate_trend
PredictStart(body) ==
    /\ pc = "idle"
    /\ pc' = "trend"
    /\ data' = body
    /\ risk' = calculate_risk(body)
    /\ current' = body.glucose
    /\ series' = <<>>
    /\ UNCHANGED <<rng, resp>>

\* one iteration of the loop of generate_trend
TrendStep(change) ==
    /\ pc = "trend"
    /\ Len(series) < TrendLen
    /\ IsFinite(current)
    /\ series' = Append(series, IntOf(current))
    /\ current' = ClampTrend(FAdd(current, change))
    /\ rng' = Drawn(rng, 1)
    /\ UNCHANGED <<pc, data, risk, resp>>

\* int(current) raises ValueError (NaN) or OverflowError (an infinity):
\* predict_risk ends with the exception, which the framework answers with 500
TrendRaise ==
    /\ pc = "trend"
    /\ Len(series) < TrendLen
    /\ ~IsFinite(current)
    /\ pc' = "done"
    /\ resp' = [kind |-> "error", body |-> data]
    /\ data' = NoData
    /\ risk' = NoRisk
    /\ current' = NoFloat
    /\ series' = <<>>
    /\ UNCHANGED rng

\* the loop is over: return RiskResponse(...)
PredictReturn ==
    /\ pc = "trend"
    /\ Len(series) = TrendLen
    /\ pc' = "done"
    /\ resp' = [kind |-> "predict", body |-> data,
                risk_score |-> risk.score, risk_label |-> risk.label,
                explanation |-> risk.explanation,
                glucose_series_14d |-> series]
    /\ data' = NoData
    /\ risk' = NoRisk
    /\ current' = NoFloat
    /\ series' = <<>>
    /\ UNCHANGED rng

\* scan_product: random.choice(products), then random.randint of the range
scan_product(i, score) ==
    /\ pc = "idle"
    /\ pc' = "done"
    /\ LET detected == products[i]
       IN  /\ score \in ScanScores(detected)
           /\ resp' = [kind |-> "scan", product_name |-> detected.name,
                       estimated_carbs |-> detected.carbs,
                       risk_label |-> detected.risk, risk_score |-> score,
                       explanation |-> detected.expl]
    /\ rng' = Drawn(rng, 2)
    /\ UNCHANGED <<data, risk, current, series>>

\* the response is sent and the event loop takes the next request
Respond ==
    /\ pc = "done"
    /\ pc' = "idle"
    /\ resp' = NoResp
    /\ UNCHANGED <<data, risk, current, series, rng>>

Next ==
    \/ \E body \in PredictBodies : PredictStart(body)
    \/ \E change \in Steps : TrendStep(change)
    \/ TrendRaise
    \/ PredictReturn
    \/ \E i \in 1..Len(products) :
         \E score \in ScanScores(products[i]) : scan_product(i, score)
    \/ Respond

Spec == Init /\ [][Next]_vars

----------------------------------------------------------------------------
(* calculate_risk on its own: a caller applies it to an input, lets other  *)
(* code draw from the global generator, and applies it again to an input   *)
(* with the same five numbers and any mood.                                *)

InitRisk ==
    /\ pc = "call"
    /\ data \in PatientInputs
    /\ risk = NoRisk
    /\ current = NoFloat
    /\ series = <<>>
    /\ rng = 0
    /\ resp = NoResp

RiskCall ==
    /\ pc = "call"
    /\ pc' = "called"
    /\ risk' = calculate_risk(data)
    /\ UNCHANGED <<data, current, series, rng, resp>>

\* random.randint / random.choice run by another call in between
RiskDraw ==
    /\ pc = "called"
    /\ rng' = Drawn(rng, 1)
    /\ UNCHANGED <<pc, data, risk, current, series, resp>>

RiskAgain(m) ==
    /\ pc = "called"
    /\ data' = [data EXCEPT !.mood = m]
    /\ risk' = calculate_risk(data')
    /\ UNCHANGED <<pc, current, series, rng, resp>>

NextRisk ==
    \/ RiskCall
    \/ RiskDraw
    \/ \E m \in Moods : RiskAgain(m)

SpecRisk == InitRisk /\ [][NextRisk]_vars

----------------------------------------------------------------------------
(* Properties of calculate_risk, checked under SpecRisk *)

Ind(b) == IF b THEN 1 ELSE 0

\* the four additions that follow the glucose term
OtherTerms(d) ==
    20 * Ind(FGt(d.carbs_grams, 60))
    + 15 * Ind(FGt(d.stress_level, 7))
    + 10 * Ind(FLt(d.activity_level, 3))
    + 10 * Ind(FEq(d.insulin_units, 0) /\ FGt(d.glucose, 150))

\* the glucose term with its third case stated as the range 70..180
GlucoseTermRanged(g) ==
    IF FGt(g, 180) THEN 60
    ELSE IF FLt(g, 70) THEN 50
    ELSE IF FGe(g, 70) /\ FLe(g, 180) THEN 10
    ELSE 0

\* the glucose term with its third case stated as "otherwise"
GlucoseTermElse(g) ==
    IF FGt(g, 180) THEN 60
    ELSE IF FLt(g, 70) THEN 50
    ELSE 10

SumElse(d) == GlucoseTermElse(d.glucose) + OtherTerms(d)
SumRanged(d) == GlucoseTermRanged(d.glucose) + OtherTerms(d)

\* the reason of each rule, "" where the rule did not trigger, in rule order
ReasonSlots(d) ==
    << IF FGt(d.glucose, 180) THEN "Current glucose is elevated."
       ELSE IF FLt(d.glucose, 70) THEN "Risk of hypoglycemia." ELSE "",
       IF FGt(d.carbs_grams, 60) THEN "High carb intake detected." ELSE "",
       IF FGt(d.stress_level, 7)
       THEN "High stress levels can spike glucose." ELSE "",
       IF FLt(d.activity_level, 3)
       THEN "Low activity increases persistence of high glucose." ELSE "",
       IF FEq(d.insulin_units, 0) /\ FGt(d.glucose, 150)
       THEN "Missed insulin correction?" ELSE "" >>

RECURSIVE JoinSlots(_, _)
JoinSlots(slots, acc) ==
    IF slots = <<>> THEN acc
    ELSE IF Head(slots) = "" THEN JoinSlots(Tail(slots), acc)
    ELSE JoinSlots(Tail(slots),
                   IF acc = "" THEN Head(slots) ELSE acc \o " " \o Head(slots))

ExpectedExplanation(d) ==
    LET joined == JoinSlots(ReasonSlots(d), "")
    IN  IF joined = "" THEN "Levels look stable." ELSE joined

\* no rule with a reason triggered
NoneTriggered(d) ==
    /\ ~FGt(d.glucose, 180)
    /\ ~FLt(d.glucose, 70)
    /\ ~FGt(d.carbs_grams, 60)
    /\ ~FGt(d.stress_level, 7)
    /\ ~FLt(d.activity_level, 3)
    /\ ~(FEq(d.insulin_units, 0) /\ FGt(d.glucose, 150))

\* the same, stated as the ranges the values are in
AllInRange(d) ==
    /\ FGe(d.glucose, 70) /\ FLe(d.glucose, 180)
    /\ FLe(d.carbs_grams, 60)
    /\ FLe(d.stress_level, 7)
    /\ FGe(d.activity_level, 3)
    /\ ~(FEq(d.insulin_units, 0) /\ FGt(d.glucose, 150))

SameFive(d, e) ==
    /\ d.glucose = e.glucose
    /\ d.insulin_units = e.insulin_units
    /\ d.carbs_grams = e.carbs_grams
    /\ d.activity_level = e.activity_level
    /\ d.stress_level = e.stress_level

\* C1: every input, whatever its activity and stress levels, is scored: the
\* score lies in 0..100 and the label is the bucket of the score (Low below
\* 30, Medium from 30 to 69, High from 70).
C1_ScoreBoundedAndBucketed ==
    /\ pc = "call" => ENABLED RiskCall
    /\ pc = "called" =>
         /\ risk.score \in 0..100
         /\ risk.score < 30 => risk.label = "Low"
         /\ (30 <= risk.score /\ risk.score < 70) => risk.label = "Medium"
         /\ risk.score >= 70 => risk.label = "High"

\* a call with activity below 0 and stress above 10 whose sum went over 100
C1_Witness ==
    /\ pc = "called"
    /\ data.activity_level = F(-1)
    /\ data.stress_level = F(11)
    /\ RawScore(data) = 115
    /\ risk.score = 100
    /\ risk.label = "High"

\* C2 as claimed: the score is min(100, S) where the glucose term of S is +60
\* above 180, +50 below 70 and +10 for 70 <= glucose <= 180.
C2_Original ==
    pc = "called" => risk.score = Min2(100, SumRanged(data))

\* C2 as amended: the score is min(100, S) where the glucose term of S is +60
\* above 180, +50 below 70 and +10 in every other case (a NaN glucose too);
\* glucose 200, 100 and 60 with the defaults give 70/High, 10/Low, 50/Medium.
C2_ScoreIsCappedSum ==
    pc = "called" =>
        /\ risk.score = Min2(100, SumElse(data))
        /\ data = PatientData(F(200), F(0), F(0), F(5), F(5), data.mood)
             => (risk.score = 70 /\ risk.label = "High")
        /\ data = PatientData(F(100), F(0), F(0), F(5), F(5), data.mood)
             => (risk.score = 10 /\ risk.label = "Low")
        /\ data = PatientData(F(60), F(0), F(0), F(5), F(5), data.mood)
             => (risk.score = 50 /\ risk.label = "Medium")

\* a NaN glucose scored +10 although it is not within 70..180
C2_Witness ==
    /\ pc = "called"
    /\ data.glucose = NaN
    /\ data.carbs_grams = Fin(121)
    /\ risk.score = 30

\* C3 as claimed: the explanation is the triggered reasons in rule order,
\* joined by single spaces, and is "Levels look stable." exactly when glucose
\* is in [70,180], carbs <= 60, stress <= 7, activity >= 3 and the missed
\* insulin rule is off.
C3_Original ==
    pc = "called" =>
        /\ risk.explanation = ExpectedExplanation(data)
        /\ risk.explanation = "Levels look stable." <=> AllInRange(data)

\* C3 as amended: the explanation is the triggered reasons in rule order,
\* joined by single spaces, and is "Levels look stable." exactly when no rule
\* with a reason triggered, that is when none of glucose > 180, glucose < 70,
\* carbs > 60, stress > 7, activity < 3, (insulin == 0 and glucose > 150)
\* holds.
C3_ExplanationIsJoinedReasons ==
    pc = "called" =>
        /\ risk.explanation = ExpectedExplanation(data)
        /\ risk.explanation = "Levels look stable." <=> NoneTriggered(data)

\* all five reasons at once
C3_Witness ==
    /\ pc = "called"
    /\ risk.explanation =
         "Current glucose is elevated. High carb intake detected. "
         \o "High stress levels can spike glucose. "
         \o "Low activity increases persistence of high glucose. "
         \o "Missed insulin correction?"

\* C6: a call whose five numbers equal those of the call before it returns
\* the same score, label and explanation, whatever the two moods are and
\* whatever was drawn from the global generator in between.
C6_SameFiveSameResult ==
    [][(pc = "called" /\ pc' = "called" /\ SameFive(data, data'))
         => risk' = risk]_vars

\* a second call, with another mood, after a draw
C6_Witness ==
    /\ pc = "called"
    /\ data.mood = "happy"
    /\ rng = 1
    /\ risk.score = 70

\* C7: glucose above 180 gives a score of at least 60 and never the label Low.
C7_ElevatedNeverLow ==
    (pc = "called" /\ FGt(data.glucose, 180)) =>
        /\ risk.score >= 60
        /\ risk.label \in {"Medium", "High"}

\* glucose above 180 with no other rule on: exactly 60, Medium
C7_Witness ==
    /\ pc = "called"
    /\ data.glucose = Fin(361)
    /\ risk.score = 60
    /\ risk.label = "Medium"

----------------------------------------------------------------------------
(* Properties of the handlers, checked under Spec *)

\* the series a /predict response carries, or the one being built
SeriesSoFar == IF resp.kind = "predict" THEN resp.glucose_series_14d ELSE series

\* the glucose the series started from
StartGlucose == IF resp.kind = "predict" THEN resp.body.glucose ELSE data.glucose

\* a finite float, counted in halves, rounded down and rounded toward zero
FloorOf(x) == x.h \div 2
TruncOf(x) == IF x.h >= 0 THEN x.h \div 2 ELSE (x.h + 1) \div 2

\* a finite float brought into [60,350]
Within60To350(x) ==
    IF x.h < 120 THEN Fin(120) ELSE IF x.h > 700 THEN Fin(700) ELSE x

CatalogNames == {"Apple", "Soda Can", "Pizza Slice", "Salad", "Donut"}

\* C4 as claimed: every value of the series of a /predict response lies
\* within [60,350].
C4_Original ==
    resp.kind = "predict" =>
        \A n \in 1..Len(resp.glucose_series_14d) :
            resp.glucose_series_14d[n] \in 60..350

\* C4 as amended: every value after the first lies within [60,350]; the
\* first is int(start_glucose), appended before any clamp, and lies within
\* [60,350] exactly when 60 <= start_glucose < 351.
C4_SeriesBoundedAfterFirst ==
    (pc = "trend" \/ resp.kind = "predict") =>
        /\ \A n \in 2..Len(SeriesSoFar) : SeriesSoFar[n] \in 60..350
        /\ Len(SeriesSoFar) >= 1 =>
             (SeriesSoFar[1] \in 60..350
                <=> (FGe(StartGlucose, 60) /\ FLt(StartGlucose, 351)))

\* a response whose series starts at 400 and is clamped from then on
C4_Witness ==
    /\ resp.kind = "predict"
    /\ resp.glucose_series_14d[1] = 400
    /\ resp.glucose_series_14d[2] = 350
    /\ resp.glucose_series_14d[3] = 335

C9_StepIsEagerWalk ==
    (pc = "trend" /\ pc' = "trend" /\ series' # series) =>
        /\ series' = Append(series, TruncOf(current))
        /\ \E step \in -15..15 :
              current' = Within60To350(Fin(current.h + 2 * step))

C5_ScanIsCatalogEntry ==
    resp.kind = "scan" =>
        /\ resp.product_name \in CatalogNames
        /\ \E n \in 1..5 :
              /\ products[n].name = resp.product_name
              /\ products[n].carbs = resp.estimated_carbs
              /\ products[n].risk = resp.risk_label
              /\ products[n].expl = resp.explanation
        /\ resp.risk_label = "High" => resp.risk_score \in 70..95
        /\ resp.risk_label = "Medium" => resp.risk_score \in 30..69
        /\ resp.risk_label = "Low" => resp.risk_score \in 5..29
        /\ resp.risk_label \in {"High", "Medium", "Low"}

\* the top of the High range
C5_Witness ==
    /\ resp.kind = "scan"
    /\ resp.product_name = "Donut"
    /\ resp.estimated_carbs = 45
    /\ resp.risk_score = 95

\* C10: the thresholds of the predict path, applied to the score of a /scan
\* result, give the label of that result.
C10_ScanLabelIsPredictBucket ==
    resp.kind = "scan" => LabelOf(resp.risk_score) = resp.risk_label

\* the top of the Low range, one below the Medium threshold of the predict path
C10_Witness ==
    /\ resp.kind = "scan"
    /\ resp.product_name = "Salad"
    /\ resp.risk_score = 29
    /\ resp.risk_label = "Low"

\* C8: whatever ran before (the generator may be anywhere), a /predict
\* response carries the score, label and explanation that its own body
\* fixes, every response keeps its ranges, and a request starts from nothing
\* but the position of the generator.
C8_ResponsesDependOnOwnRequest ==
    /\ resp.kind = "predict" =>
         /\ resp.risk_score = Min2(100, SumElse(resp.body))
         /\ resp.risk_label = LabelOf(resp.risk_score)
         /\ resp.explanation = ExpectedExplanation(resp.body)
         /\ resp.risk_score \in 0..100
         /\ Len(resp.glucose_series_14d) = 14
         /\ resp.glucose_series_14d[1] = TruncOf(resp.body.glucose)
         /\ \A n \in 2..14 : resp.glucose_series_14d[n] \in 60..350
    /\ resp.kind = "scan" =>
         /\ resp.product_name \in CatalogNames
         /\ resp.risk_score \in 5..95
    /\ pc = "idle" =>
         /\ data = NoData
         /\ risk = NoRisk
         /\ current = NoFloat
         /\ series = <<>>
         /\ resp = NoResp
    /\ rng \in 0..(RngPeriod - 1)

\* a /predict response made after other requests had moved the generator
C8_Witness ==
    /\ resp.kind = "predict"
    /\ rng = 1
    /\ resp.body.mood = "happy"
    /\ resp.risk_score = 100

====
